---- MODULE Spec2Model ----
(***************************************************************************)
(* fliplab: the retrying HTTP client (ScraperClient) talking to the        *)
(* scraper service's Express routes.                                       *)
(*                                                                         *)
(* One client call is in progress at a time.  Each attempt of              *)
(* executeWithRetry sends one HTTP request; the service handles it         *)
(* (rate limiter, Joi validation, the source calls and their join) and     *)
(* answers, or the transport fails (network error, per-attempt timeout).   *)
(***************************************************************************)
EXTENDS Integers, Sequences, FiniteSets, TLC

\* ------------------------------------------------------------------ bounds
\* largest retryAttempts a caller passes to the constructor
MaxAttempts == 3
\* largest retryDelay (ms) a caller passes to the constructor
MaxDelay == 2
\* largest number of listings one source returns for a search
MaxItems == 3
\* largest number of listing elements on one result page
MaxPage == 3
\* largest number of characters of a price text
MaxPriceLen == 3
\* largest number of items the hook holds when the statistics are computed
MaxStatItems == 4
\* largest number of operations a component starts on the hook
MaxOps == 2
\* largest number of items one platform returns to the hook
MaxHits == 1
\* largest number of requests that reach the server
MaxRequests == 3
\* largest number of items added to the inventory
MaxInventory == 2
\* largest cost and largest sale price (dollars)
MaxAmount == 1

\* ------------------------------------------------- constants of the program
DefaultRetryAttempts == 3
DefaultRetryDelay == 1000
QueryMinLen == 1
QueryMaxLen == 200
PriceFloor == 0
PriceCeil == 100000
LimitMin == 1
LimitMax == 100
DefaultLimit == 20

Sources == {"facebook", "poshmark"}
SortValues == {"relevance", "price-low", "price-high", "date", "distance"}

\* ------------------------------------------------------- ScraperClientConfig
\* A Partial<ScraperClientConfig> field is <<>> when absent, <<v>> when given.
ConfigInputs ==
  [retryAttempts : {<<>>} \cup {<<n>> : n \in 0..MaxAttempts},
   retryDelay    : {<<>>} \cup {<<d>> : d \in 0..MaxDelay}]

\* `x || dflt` of JavaScript on an optional number: undefined and 0 are falsy
OrDefault(opt, dflt) == IF opt = <<>> \/ opt[1] = 0 THEN dflt ELSE opt[1]

\* constructor: the config the client ends up with
Constructor(in) ==
  [retryAttempts |-> OrDefault(in.retryAttempts, DefaultRetryAttempts),
   retryDelay    |-> OrDefault(in.retryDelay, DefaultRetryDelay)]

\* ------------------------------------------------------------- SearchParams
\* Optional fields are <<>> when absent, <<v>> when present.
ValidParams ==
  [query |-> <<"nike">>, priceMin |-> <<20>>, priceMax |-> <<100>>,
   sortBy |-> <<>>, limit |-> <<>>]

SearchRequests ==
  { ValidParams,
    [ValidParams EXCEPT !.query = <<>>],
    [ValidParams EXCEPT !.query = <<"">>],
    [ValidParams EXCEPT !.priceMin = <<-1>>],
    [ValidParams EXCEPT !.limit = <<0>>],
    [ValidParams EXCEPT !.sortBy = <<"newest">>] }

\* variant: the schema has no upper limit on `limit`
searchParamsSchema_NoLimitMax(p) ==
  IF p.query = <<>> \/ Len(p.query[1]) < QueryMinLen \/ Len(p.query[1]) > QueryMaxLen
    THEN "query"
  ELSE IF p.priceMin # <<>> /\ (p.priceMin[1] < PriceFloor \/ p.priceMin[1] > PriceCeil)
    THEN "priceMin"
  ELSE IF p.priceMax # <<>> /\ (p.priceMax[1] < PriceFloor \/ p.priceMax[1] > PriceCeil)
    THEN "priceMax"
  ELSE IF p.sortBy # <<>> /\ p.sortBy[1] \notin SortValues
    THEN "sortBy"
  ELSE IF p.limit # <<>> /\ p.limit[1] < LimitMin
    THEN "limit"
  ELSE ""

\* searchParamsSchema.validate: the key of the first failing rule, "" if none
\* (Joi checks the keys in schema order and stops at the first error)
searchParamsSchema(p) ==
  IF p.query = <<>> \/ Len(p.query[1]) < QueryMinLen \/ Len(p.query[1]) > QueryMaxLen
    THEN "query"
  ELSE IF p.priceMin # <<>> /\ (p.priceMin[1] < PriceFloor \/ p.priceMin[1] > PriceCeil)
    THEN "priceMin"
  ELSE IF p.priceMax # <<>> /\ (p.priceMax[1] < PriceFloor \/ p.priceMax[1] > PriceCeil)
    THEN "priceMax"
  ELSE IF p.sortBy # <<>> /\ p.sortBy[1] \notin SortValues
    THEN "sortBy"
  ELSE IF p.limit # <<>> /\ (p.limit[1] < LimitMin \/ p.limit[1] > LimitMax)
    THEN "limit"
  ELSE ""

\* ------------------------------------------------------- item-details URLs
\* A URL is described by what the route tests on it.
Urls ==
  [uri : BOOLEAN, facebook : BOOLEAN, marketplace : BOOLEAN, poshmark : BOOLEAN]

ItemUrls ==
  { [uri |-> TRUE,  facebook |-> TRUE,  marketplace |-> TRUE,  poshmark |-> FALSE],
    [uri |-> TRUE,  facebook |-> FALSE, marketplace |-> FALSE, poshmark |-> TRUE],
    [uri |-> TRUE,  facebook |-> FALSE, marketplace |-> FALSE, poshmark |-> FALSE],
    [uri |-> FALSE, facebook |-> FALSE, marketplace |-> FALSE, poshmark |-> FALSE] }

\* itemDetailsSchema.validate: "" when the body passes
itemDetailsSchema(u) == IF u.uri THEN "" ELSE "url"

\* which scraper the route hands the URL to ("" = unsupported platform)
RouteByUrl(u) ==
  IF u.facebook \/ u.marketplace THEN "facebook"
  ELSE IF u.poshmark THEN "poshmark"
  ELSE ""

\* ------------------------------------------------------------------- calls
NoParams == [query |-> <<>>, priceMin |-> <<>>, priceMax |-> <<>>,
             sortBy |-> <<>>, limit |-> <<>>]
NoUrl == [uri |-> FALSE, facebook |-> FALSE, marketplace |-> FALSE, poshmark |-> FALSE]

SearchOps == {"facebook", "poshmark", "all"}

Calls ==
  { [op |-> o, params |-> p, url |-> NoUrl] : o \in SearchOps, p \in SearchRequests }
  \cup { [op |-> "details", params |-> NoParams, url |-> u] : u \in ItemUrls }

NoCall == [op |-> "none", params |-> NoParams, url |-> NoUrl]

\* the sources a search endpoint queries
SourcesOf(op) == IF op = "all" THEN Sources ELSE {op}

\* ---------------------------------------------------------------- listings
Item(s, i) == [platform |-> s, n |-> i]
Listings(s, k) == [i \in 1..k |-> Item(s, i)]

\* ------------------------------------------------------ response envelopes
NoData == [shape |-> "none", facebook |-> <<>>, poshmark |-> <<>>,
           total |-> 0, list |-> <<>>]
NoResponse == [status |-> 0, success |-> FALSE, error |-> "", message |-> "",
               data |-> NoData]

ErrorResponse(st, err, msg) ==
  [status |-> st, success |-> FALSE, error |-> err, message |-> msg, data |-> NoData]
OkResponse(d) ==
  [status |-> 200, success |-> TRUE, error |-> "", message |-> "", data |-> d]

\* -------------------------------------------------------------- client errors
\* `at` is the attempt that produced the error (its identity).
NoError == [kind |-> "none", status |-> 0, at |-> 0]
TransportError(k, a) == [kind |-> k, status |-> 0, at |-> a]
HttpError(st, a) == [kind |-> "http", status |-> st, at |-> a]

\* an AxiosResponse: the status and the envelope in its body
AxiosResponse(r) == [status |-> r.status, data |-> r]

\* how operation() settled: fulfilled with a response or rejected with an error
Fulfilled(r) == [ok |-> TRUE, response |-> AxiosResponse(r), error |-> NoError]
Rejected(r, e) == [ok |-> FALSE, response |-> AxiosResponse(r), error |-> e]
NoResult == Rejected(NoResponse, NoError)
NoReturn == [kind |-> "none", data |-> NoData, cause |-> NoError, message |-> ""]


\* ===================================================================== state
VARIABLES
  config,     \* ScraperClient.config
  pc,         \* where the client call is: idle, inflight, settled, delaying, done
  call,       \* the public method being executed and its argument
  attempt,    \* executeWithRetry's loop variable
  invoked,    \* how many times operation() has been invoked in this call
  delays,     \* the delays (ms) this call has slept, in order
  lastError,  \* executeWithRetry's lastError (NoError = undefined)
  opResult,   \* how the promise of the current operation() settled
  outcome,    \* "" while running, then "Succeeded" or "Exhausted"
  ret,        \* what the public method gave its caller
  hpc,        \* the route handler: idle, received, awaiting, responded
  src,        \* per source: the scraper call of this request
  srcItems,   \* per source: what the scraper call returned
  response,   \* the HTTP response the service sent for this request
  order,      \* the sources whose scraper call has settled, in completion order
  fnOp,       \* the function last evaluated on its own ("none" before any)
  fnIn,       \* its argument
  fnOut,      \* its result
  state,      \* useScraper's state: items, loading, error, lastSearch, totalResults
  isMounted,  \* useScraper's isMountedRef.current
  inflight,   \* the hook operations awaiting the client: <<id, operation, params>>
  started,    \* how many hook operations have been started
  lastKind,   \* the search operation that last set lastSearch ("none" before any)
  resultOf,   \* per started operation: <<operation, "pending" | "ok" | "failed", items>>
  cleared,    \* clearResults ran after the last search was started
  retried,    \* <<>> or <<issued, last>>: what the last retryLastSearch issued, and
              \* the search operation that had set lastSearch
  inventoryItems, \* useInventory's inventoryItems
  soldItems,      \* useInventory's soldItems
  generated,      \* how many ids generateId has handed out
  phase,          \* the server process: created, initializing, initialized, listening, exited
  isInitialized,  \* ScraperService.isInitialized
  accepting,      \* the HTTP server has its listening handle
  waiting,        \* requests received whose handler has not called the service yet
  running,        \* requests whose service call is in progress
  arrived,        \* how many requests have arrived
  signals,        \* how many SIGTERM/SIGINT the process has received
  closeCallbacks, \* callbacks given to server.close that await the 'close' event
  closed,         \* the server has emitted 'close'
  cleanups,       \* how many times cleanup() has been called
  lastServed,     \* <<>> or <<ready, result>> of the last service call: whether
                  \* initialize() had completed with no cleanup() since, and what it gave
  invCall         \* <<"markAsSold", itemId, soldPrice>> when the last call on useInventory
                  \* was that one, <<"none", 0, 0>> otherwise

clientVars == <<config, pc, call, attempt, invoked, delays, lastError, opResult,
                outcome, ret>>
serverVars == <<hpc, src, srcItems, response, order>>
fnVars == <<fnOp, fnIn, fnOut>>
hookVars == <<state, isMounted, inflight, started, lastKind, resultOf, cleared, retried>>
invVars == <<inventoryItems, soldItems, generated, invCall>>
lifeVars == <<phase, isInitialized, accepting, waiting, running, arrived, signals,
              closeCallbacks, closed, cleanups, lastServed>>
auxVars == <<hookVars, invVars, lifeVars>>
vars == <<config, pc, call, attempt, invoked, delays, lastError, opResult,
          outcome, ret, hpc, src, srcItems, response, order, fnOp, fnIn, fnOut,
          state, isMounted, inflight, started, lastKind, resultOf, cleared, retried,
          inventoryItems, soldItems, generated, invCall,
          phase, isInitialized, accepting, waiting, running, arrived, signals,
          closeCallbacks, closed, cleanups, lastServed>>

NoSrc == [s \in Sources |-> "none"]
NoSrcItems == [s \in Sources |-> <<>>]

\* null of JavaScript
Null == "null"

\* useState's initial ScraperState
InitialState ==
  [error |-> Null, items |-> <<>>, lastSearch |-> Null, loading |-> FALSE,
   totalResults |-> 0]

\* the hook right after its first render, nothing started
HookIdle ==
  /\ state = InitialState
  /\ isMounted = TRUE
  /\ inflight = {}
  /\ started = 0
  /\ lastKind = "none"
  /\ resultOf = <<>>
  /\ cleared = FALSE
  /\ retried = <<>>

\* useInventory right after its first render, nothing in localStorage
InventoryIdle ==
  /\ inventoryItems = <<>>
  /\ soldItems = <<>>
  /\ generated = 0
  /\ invCall = <<"none", 0, 0>>

\* the server process before start() is called
ServerCreated ==
  /\ phase = "created"
  /\ isInitialized = FALSE
  /\ accepting = FALSE
  /\ waiting = 0
  /\ running = 0
  /\ arrived = 0
  /\ signals = 0
  /\ closeCallbacks = 0
  /\ closed = FALSE
  /\ cleanups = 0
  /\ lastServed = <<>>

Init ==
  /\ \E in \in ConfigInputs : config = Constructor(in)
  /\ pc = "idle"
  /\ call = NoCall
  /\ attempt = 0
  /\ invoked = 0
  /\ delays = <<>>
  /\ lastError = NoError
  /\ opResult = NoResult
  /\ outcome = ""
  /\ ret = NoReturn
  /\ hpc = "idle"
  /\ src = NoSrc
  /\ srcItems = NoSrcItems
  /\ response = NoResponse
  /\ order = <<>>
  /\ fnOp = "none"
  /\ fnIn = <<>>
  /\ fnOut = <<>>
  /\ HookIdle
  /\ InventoryIdle
  /\ ServerCreated

\* ============================================================ ScraperClient
\* variants of the loop condition: one iteration too many, one too few
LoopCond_OneMore(a, n) == a <= n + 1
LoopCond_OneLess(a, n) == a < n

\* the loop condition of executeWithRetry: attempt <= retryAttempts
LoopCond(a, n) == a <= n

\* the guard of the backoff sleep: attempt < retryAttempts
ShouldDelay(a, n) == a < n

\* variant of the backoff: the same delay before every retry
BackoffDelay_Flat(base, a) == base

\* the backoff: retryDelay * attempt
BackoffDelay(base, a) == base * a

\* variant of the catch block: only the first error is kept
CatchError_KeepFirst(prev, err) == IF prev.kind = "none" THEN err ELSE prev

\* catch (error) { lastError = error }
CatchError(prev, err) == err

\* axios' default validateStatus: only 2xx resolves
ValidateStatus(st) == st >= 200 /\ st < 300

\* the prefix each public method puts on the error it rethrows
ErrorPrefix(op) ==
  CASE op = "facebook" -> "Facebook Marketplace search failed: "
    [] op = "poshmark" -> "Poshmark search failed: "
    [] op = "all"      -> "Multi-platform search failed: "
    [] OTHER           -> "Failed to get item details: "

\* data.data is truthy (an empty array is)
Truthy(d) == d.shape # "none"

\* the public method after executeWithRetry returned `resp`
Decode(op, resp) ==
  IF resp.data.success /\ Truthy(resp.data.data)
    THEN [kind |-> "value", data |-> resp.data.data, cause |-> NoError, message |-> ""]
  ELSE IF op = "details" /\ resp.data.success
    THEN [kind |-> "null", data |-> NoData, cause |-> NoError, message |-> ""]
  ELSE [kind |-> "error", data |-> NoData, cause |-> NoError,
        message |-> ErrorPrefix(op)]

\* the public method's catch block around executeWithRetry throwing `err`
Rethrow(op, err) ==
  [kind |-> "error", data |-> NoData, cause |-> err, message |-> ErrorPrefix(op)]

\* operation(): the request leaves; a fresh handler will run for it
\* (n = the invocations made so far in this call)
Invoke(a, n) ==
  /\ pc' = "inflight"
  /\ attempt' = a
  /\ invoked' = n + 1
  /\ opResult' = NoResult
  /\ outcome' = ""
  /\ ret' = NoReturn
  /\ hpc' = "received"
  /\ src' = NoSrc
  /\ srcItems' = NoSrcItems
  /\ response' = NoResponse
  /\ order' = <<>>

\* throw lastError, caught and rethrown by the public method
Throw(op, a, err, n) ==
  /\ pc' = "done"
  /\ attempt' = a
  /\ invoked' = n
  /\ outcome' = "Exhausted"
  /\ ret' = Rethrow(op, err)
  /\ IF n = 0
       THEN \* no request was made for this call: nothing of it is at the service
            /\ opResult' = NoResult
            /\ hpc' = "idle"
            /\ src' = NoSrc
            /\ srcItems' = NoSrcItems
            /\ response' = NoResponse
            /\ order' = <<>>
       ELSE UNCHANGED <<opResult, serverVars>>

\* the head of the for loop with loop variable a
Iterate(op, a, err, n) ==
  IF LoopCond(a, config.retryAttempts) THEN Invoke(a, n) ELSE Throw(op, a, err, n)

\* a caller invokes a public method; executeWithRetry starts
StartCall(c) ==
  /\ pc \in {"idle", "done"}
  /\ call' = c
  /\ lastError' = NoError
  /\ delays' = <<>>
  /\ Iterate(c.op, 1, NoError, 0)
  /\ UNCHANGED <<config, fnVars, auxVars>>

\* the response reaches the client: axios resolves or rejects on the status
Deliver ==
  /\ pc = "inflight"
  /\ hpc = "responded"
  /\ pc' = "settled"
  /\ opResult' = IF ValidateStatus(response.status)
                   THEN Fulfilled(response)
                   ELSE Rejected(response, HttpError(response.status, attempt))
  /\ UNCHANGED <<config, call, attempt, invoked, delays, lastError, outcome, ret,
                 serverVars, fnVars, auxVars>>

\* the connection fails before a response arrives
NetworkError ==
  /\ pc = "inflight"
  /\ pc' = "settled"
  /\ opResult' = Rejected(NoResponse, TransportError("network", attempt))
  /\ UNCHANGED <<config, call, attempt, invoked, delays, lastError, outcome, ret,
                 serverVars, fnVars, auxVars>>

\* axios' per-request timeout aborts the attempt
Timeout ==
  /\ pc = "inflight"
  /\ pc' = "settled"
  /\ opResult' = Rejected(NoResponse, TransportError("timeout", attempt))
  /\ UNCHANGED <<config, call, attempt, invoked, delays, lastError, outcome, ret,
                 serverVars, fnVars, auxVars>>

\* variant of the success path: the `return` is missing, the loop goes on
Return_LoopsOn(op, resp) ==
  /\ Iterate(op, attempt + 1, lastError, invoked)
  /\ UNCHANGED <<delays, lastError>>

\* `return await operation()`: the call ends with the response of this attempt
Return(op, resp) ==
  /\ pc' = "done"
  /\ outcome' = "Succeeded"
  /\ ret' = Decode(op, resp)
  /\ UNCHANGED <<attempt, invoked, delays, lastError, opResult, serverVars>>

\* executeWithRetry resumes after `await operation()`
AfterAttempt ==
  /\ pc = "settled"
  /\ IF opResult.ok
       THEN Return(call.op, opResult.response)
       ELSE /\ lastError' = CatchError(lastError, opResult.error)
            /\ IF ShouldDelay(attempt, config.retryAttempts)
                 THEN /\ delays' = Append(delays, BackoffDelay(config.retryDelay, attempt))
                      /\ pc' = "delaying"
                      /\ UNCHANGED <<attempt, invoked, opResult, outcome, ret, serverVars>>
                 ELSE /\ delays' = delays
                      /\ Iterate(call.op, attempt + 1, lastError', invoked)
  /\ UNCHANGED <<config, call, fnVars, auxVars>>

\* the backoff timer fires; the loop goes round
DelayElapsed ==
  /\ pc = "delaying"
  /\ Iterate(call.op, attempt + 1, lastError, invoked)
  /\ UNCHANGED <<config, call, delays, lastError, fnVars, auxVars>>

\* =========================================================== scraper service
\* the rate-limiting middleware refuses the request
RateLimit ==
  /\ hpc = "received"
  /\ hpc' = "responded"
  /\ response' = ErrorResponse(429, "Rate limit exceeded", "rate limit")
  /\ UNCHANGED <<clientVars, src, srcItems, order, fnVars, auxVars>>

\* what a route does with the request body before its first await:
\* "" = go on to the scrapers, otherwise the error of the 400 it answers
Reject(c) ==
  IF c.op \in SearchOps
    THEN IF searchParamsSchema(c.params) # "" THEN "Validation error" ELSE ""
  ELSE IF itemDetailsSchema(c.url) # "" THEN "Validation error"
  ELSE IF RouteByUrl(c.url) = "" THEN "Unsupported platform"
  ELSE ""

\* the `message` of a 400
RejectMessage(c) ==
  IF c.op \in SearchOps THEN searchParamsSchema(c.params)
  ELSE IF itemDetailsSchema(c.url) # "" THEN itemDetailsSchema(c.url)
  ELSE "URL must be from Facebook Marketplace or Poshmark"

\* the scrapers a route calls for the request
Dispatched(c) ==
  IF c.op \in SearchOps THEN SourcesOf(c.op) ELSE {RouteByUrl(c.url)}

\* a route handler runs up to its first await: validate, then call the scrapers
HandlerStart ==
  /\ hpc = "received"
  /\ IF Reject(call) # ""
       THEN /\ hpc' = "responded"
            /\ response' = ErrorResponse(400, Reject(call), RejectMessage(call))
            /\ UNCHANGED <<src, srcItems>>
       ELSE /\ hpc' = "awaiting"
            /\ src' = [s \in Sources |-> IF s \in Dispatched(call) THEN "pending" ELSE "none"]
            /\ UNCHANGED <<srcItems, response>>
  /\ UNCHANGED <<clientVars, order, fnVars, auxVars>>

\* Promise.all over the scraper calls S (a single await when S has one member):
\* rejects with the first rejection, fulfils when every call has fulfilled
PromiseAll(st, S) ==
  IF \E s \in S : st[s] = "failed" THEN "rejected"
  ELSE IF \A s \in S : st[s] = "ok" THEN "fulfilled"
  ELSE "pending"

\* the body of the 200 a route sends
RouteData(c, items) ==
  CASE c.op = "all" ->
         [shape |-> "all", facebook |-> items["facebook"], poshmark |-> items["poshmark"],
          total |-> Len(items["facebook"] \o items["poshmark"]), list |-> <<>>]
    [] c.op = "details" ->
         [shape |-> "item", facebook |-> <<>>, poshmark |-> <<>>, total |-> 0,
          list |-> items[RouteByUrl(c.url)]]
    [] OTHER ->
         [shape |-> "list", facebook |-> <<>>, poshmark |-> <<>>, total |-> 0,
          list |-> items[c.op]]

\* variant: the catch block leaves `error` empty
CatchMessage_Empty(c) == ""

\* the error of the 500 a route's catch block sends
CatchMessage(c) == IF c.op = "details" THEN "Failed to get item details" ELSE "Search failed"

\* variant: the catch block answers a rejection with an empty success
Respond_EmptySuccess(c, st, items) ==
  CASE PromiseAll(st, Dispatched(c)) = "pending" -> NoResponse
    [] PromiseAll(st, Dispatched(c)) = "rejected" -> OkResponse(RouteData(c, NoSrcItems))
    [] OTHER ->
         IF c.op = "details" /\ items[RouteByUrl(c.url)] = <<>>
           THEN ErrorResponse(404, "Item not found", "Could not retrieve item details")
           ELSE OkResponse(RouteData(c, items))

\* the rest of a route handler once its await is over (NoResponse: still waiting)
Respond(c, st, items) ==
  CASE PromiseAll(st, Dispatched(c)) = "pending" -> NoResponse
    [] PromiseAll(st, Dispatched(c)) = "rejected" ->
         ErrorResponse(500, CatchMessage(c), "scraper error")
    [] OTHER ->
         IF c.op = "details" /\ items[RouteByUrl(c.url)] = <<>>
           THEN ErrorResponse(404, "Item not found", "Could not retrieve item details")
           ELSE OkResponse(RouteData(c, items))

\* what a scraper call can return for the request
Returns(c, s) ==
  IF c.op = "details" THEN {Listings(s, 0), Listings(s, 1)}
  ELSE {Listings(s, k) : k \in 0..MaxItems}

\* the scraper call of source s settles; the handler resumes if it still waits
SourceSettle(s, ok, items) ==
  /\ src[s] = "pending"
  /\ src' = [src EXCEPT ![s] = IF ok THEN "ok" ELSE "failed"]
  /\ srcItems' = [srcItems EXCEPT ![s] = items]
  /\ order' = Append(order, s)
  /\ IF hpc = "awaiting" /\ Respond(call, src', srcItems') # NoResponse
       THEN /\ hpc' = "responded"
            /\ response' = Respond(call, src', srcItems')
       ELSE UNCHANGED <<hpc, response>>
  /\ UNCHANGED <<clientVars, fnVars, auxVars>>

SourceOk(s) == \E items \in Returns(call, s) : SourceSettle(s, TRUE, items)
SourceFail(s) == SourceSettle(s, FALSE, <<>>)

\* ================================================================ endpoints
\* the endpoints of the server; "unknown" is any path without a route
Endpoints == {"root", "health", "platforms", "api", "unknown"}

\* what the scraper calls of a request have come to when the handler answers
SettledSources(c) ==
  { st \in [Sources -> {"none", "ok", "failed"}] :
      \A s \in Sources : (st[s] = "none") = (s \notin Dispatched(c)) }

\* the items the scrapers returned for the statuses st
SettledItems(c, st) ==
  { items \in [Sources -> {Listings(s, k) : s \in Sources, k \in 0..1}] :
      \A s \in Sources :
        items[s] \in (IF st[s] = "ok" THEN Returns(c, s) ELSE {<<>>}) }

\* the response of the server to a request: the rate limiter first, then the
\* route of the endpoint (c: the call of an /api search or details request,
\* threw: the service call of /health or /platforms raised)
handle(ep, limited, c, st, items, threw) ==
  IF limited
    THEN ErrorResponse(429, "Rate limit exceeded",
                       "Too many requests from this IP, please try again later.")
  ELSE CASE ep = "root" -> OkResponse(NoData)
         [] ep = "health" ->
              IF threw THEN ErrorResponse(500, "Health check failed", "runtime error")
              ELSE OkResponse(NoData)
         [] ep = "platforms" ->
              IF threw THEN ErrorResponse(500, "Failed to get platform status", "runtime error")
              ELSE OkResponse(NoData)
         [] ep = "unknown" ->
              ErrorResponse(404, "Endpoint not found", "The requested endpoint does not exist")
         [] OTHER ->
              IF Reject(c) # "" THEN ErrorResponse(400, Reject(c), RejectMessage(c))
              ELSE Respond(c, st, items)

\* ------------------------------------------------------- item-details routing
\* An item URL by its host and by the names its path or query mentions.
Hosts == {"poshmark.com", "facebook.com", "example.com"}
Mentions == SUBSET {"marketplace", "facebook.com", "poshmark.com"}

\* url.includes(...) of the route, on the whole URL text
Includes(host, mentions) ==
  [uri |-> TRUE,
   facebook |-> host = "facebook.com" \/ "facebook.com" \in mentions,
   marketplace |-> "marketplace" \in mentions,
   poshmark |-> host = "poshmark.com" \/ "poshmark.com" \in mentions]

\* /item/details up to the scraper call: <<status of the 400 or 0, scraper called or "">>
detailsRoute(u) ==
  IF itemDetailsSchema(u) # "" \/ RouteByUrl(u) = "" THEN <<400, "">>
  ELSE <<0, RouteByUrl(u)>>

\* The bodies POSTed to a search route: queries are character sequences; the
\* numbers straddle every limit of the schema.
Queries == {<<>>, <<<<>>>>, <<<<"n", "i", "k", "e">>>>, <<<<" ", "n", " ">>>>, <<<<" ">>>>}
MinPrices == {<<>>, <<-1>>, <<0>>, <<20>>, <<100>>}
MaxPrices == {<<>>, <<-1>>, <<20>>, <<100>>, <<PriceCeil + 1>>}
SortInputs == {<<>>, <<"relevance">>, <<"price-high">>, <<"newest">>}
Limits == {<<>>, <<0>>, <<1>>, <<LimitMax>>, <<LimitMax + 1>>}

RequestBody(q, lo, hi, sb, lim) ==
  [query |-> q, priceMin |-> lo, priceMax |-> hi, sortBy |-> sb, limit |-> lim]

\* the `value` of searchParamsSchema.validate for a body that passes:
\* the body with the schema's defaults applied (only limit has one)
Validated(p) ==
  [p EXCEPT !.limit = IF p.limit = <<>> THEN <<DefaultLimit>> ELSE p.limit]

\* sortMap of buildSearchUrl
sortMap(v) ==
  CASE v = "relevance" -> "relevance"
    [] v = "price-low" -> "price_asc"
    [] v = "price-high" -> "price_desc"
    [] v = "date" -> "just_in"
    [] v = "distance" -> "distance"

\* buildSearchUrl: the search parameters of the URL the scraper navigates to
buildSearchUrl(params) ==
  [query     |-> params.query[1],
   min_price |-> params.priceMin,
   max_price |-> params.priceMax,
   sort_by   |-> IF params.sortBy = <<>> THEN <<>> ELSE <<sortMap(params.sortBy[1])>>]

\* a search route up to the scraper call: the 400 it answers, or the
\* parameters it hands to the scraper and the URL the scraper builds from them
searchRoute(body) ==
  IF searchParamsSchema(body) # ""
    THEN [url |-> <<>>, status |-> 400, error |-> "Validation error",
          message |-> searchParamsSchema(body), handed |-> <<>>]
    ELSE [url |-> <<buildSearchUrl(Validated(body))>>, status |-> 0, error |-> "",
          message |-> "", handed |-> <<Validated(body)>>]

\* ================================================================== scrapers
\* What the markup of one listing element of a result page holds:
\*   "listing"  child nodes, one of them the title node
\*   "untitled" child nodes with text, none of them the title node
\*   "blank"    no text at all
\*   "quoted"   a text that itself reads as the markup of a titled listing
\* n is the element's position on the page.
ElementKinds == {"listing", "untitled", "blank", "quoted"}

\* A page a scraper is given:
\*   "unreachable" the navigation throws
\*   "results"     a result page with its listing elements (none: no results)
\*   "other"       not a result page (block page, error page)
\*   "invalid"     content that makes the selection throw
PageKinds == {"unreachable", "results", "other", "invalid"}

\* the page of kind k whose listing elements have the kinds f[1], f[2], ...
Page(k, f) ==
  [kind |-> k, elements |-> [i \in DOMAIN f |-> [n |-> i, kind |-> f[i]]]]

\* $(element).text().trim(): the text of the element, its markup gone
ElementText(el) ==
  [n |-> el.n, blank |-> el.kind = "blank", markup |-> el.kind = "quoted"]

RECURSIVE Texts(_)
\* elements.each: the non-empty texts, in page order
Texts(els) ==
  IF els = <<>> THEN <<>>
  ELSE (IF ElementText(Head(els)).blank THEN <<>> ELSE <<ElementText(Head(els))>>)
         \o Texts(Tail(els))

\* the texts of the listing elements; [] when none is found or the selection throws
extractMultipleTextFromHTML(page) ==
  IF page.kind # "results" THEN <<>> ELSE Texts(page.elements)

\* the item of one element text, <<>> for null: the title is looked up in the
\* text parsed as a document of its own
extractItemFromElement(text) ==
  IF text.markup THEN <<[n |-> text.n]>> ELSE <<>>

RECURSIVE PushItems(_)
\* the for loop: push the item of every element text that gives one
PushItems(texts) ==
  IF texts = <<>> THEN <<>>
  ELSE extractItemFromElement(Head(texts)) \o PushItems(Tail(texts))

extractSearchResults(page) == PushItems(extractMultipleTextFromHTML(page))

\* searchItems: throws when the navigation throws, otherwise returns the items
searchItems(page) ==
  IF page.kind = "unreachable"
    THEN [items |-> <<>>, threw |-> TRUE]
    ELSE [items |-> extractSearchResults(page), threw |-> FALSE]

\* ================================================================ parsePrice
\* A price text is a sequence of characters over a currency sign, a letter,
\* two digits and the two separators.
PriceChars == {"$", "F", "0", "5", ",", "."}
Digits == {"0", "5"}

DigitValue(c) == IF c = "5" THEN 5 ELSE 0

\* priceText.replace(/[^\d.,]/g, '')
CleanPrice(text) == SelectSeq(text, LAMBDA c : c \in Digits \cup {".", ","})

\* cleanPrice.replace(/,/g, '')
RemoveCommas(text) == SelectSeq(text, LAMBDA c : c # ",")

RECURSIVE DigitPrefix(_)
\* the longest prefix of digits
DigitPrefix(text) ==
  IF text = <<>> \/ Head(text) \notin Digits THEN <<>>
  ELSE <<Head(text)>> \o DigitPrefix(Tail(text))

RECURSIVE ToNat(_)
\* the number a sequence of digits reads as
ToNat(digits) ==
  IF digits = <<>> THEN 0
  ELSE 10 * ToNat(SubSeq(digits, 1, Len(digits) - 1)) + DigitValue(digits[Len(digits)])

\* a number is mantissa / 10^scale; NaN is not a number
NaN == [nan |-> TRUE, mantissa |-> 0, scale |-> 0]
Number(m, sc) == [nan |-> FALSE, mantissa |-> m, scale |-> sc]

\* parseFloat: the longest prefix that is a decimal literal (digits, then
\* optionally a point and digits, one digit at least); NaN when there is none
parseFloat(text) ==
  LET whole == DigitPrefix(text)
      rest == SubSeq(text, Len(whole) + 1, Len(text))
      fraction == IF rest # <<>> /\ Head(rest) = "." THEN DigitPrefix(Tail(rest)) ELSE <<>>
  IN IF whole = <<>> /\ fraction = <<>> THEN NaN
     ELSE Number(ToNat(whole \o fraction), Len(fraction))

\* parsePrice: no statement of the try block throws for a string, so the
\* catch block that returns 0 is never entered
parsePrice(priceText) ==
  LET cleanPrice == CleanPrice(priceText)
  IN IF \E i \in 1..Len(cleanPrice) : cleanPrice[i] = ","
       THEN parseFloat(RemoveCommas(cleanPrice))
       ELSE parseFloat(cleanPrice)

\* ============================================================= getPriceStats
\* the prices an item can have (whole numbers)
StatPrices == {10, 20, 30, 40}

\* the hook's item list whose i-th item has the price f[i]
StateItems(f) == [i \in DOMAIN f |-> [n |-> i, price |-> f[i]]]

\* items.map(item => item.price): a new array
PricesOf(items) == [i \in DOMAIN items |-> items[i].price]

RECURSIVE Insert(_, _)
\* p put into the ascending sequence sorted, after the elements not larger
Insert(sorted, p) ==
  IF sorted = <<>> THEN <<p>>
  ELSE IF p < Head(sorted) THEN <<p>> \o sorted
  ELSE <<Head(sorted)>> \o Insert(Tail(sorted), p)

RECURSIVE SortAscending(_)
\* .sort((a, b) => a - b)
SortAscending(prices) ==
  IF prices = <<>> THEN <<>>
  ELSE Insert(SortAscending(SubSeq(prices, 1, Len(prices) - 1)), prices[Len(prices)])

RECURSIVE Sum(_)
\* prices.reduce((sum, price) => sum + price, 0)
Sum(prices) == IF prices = <<>> THEN 0 ELSE Head(prices) + Sum(Tail(prices))

\* a quotient num / den, kept exact
Quotient(a, b) == [num |-> a, den |-> b]

\* variant: the upper middle element, whatever the count
Median_UpperMiddle(prices) ==
  LET mid == Len(prices) \div 2
  IN Quotient(prices[mid + 1], 1)

\* the median of the sorted prices; prices[mid] of the code is prices[mid + 1] here
Median(prices) ==
  LET mid == Len(prices) \div 2
  IN IF Len(prices) % 2 = 0
       THEN Quotient(prices[mid] + prices[mid + 1], 2)
       ELSE Quotient(prices[mid + 1], 1)

\* getPriceStats over state.items; `items` is state.items after the call
getPriceStats(items) ==
  IF Len(items) = 0
    THEN [items |-> items, min |-> Quotient(0, 1), max |-> Quotient(0, 1),
          average |-> Quotient(0, 1), median |-> Quotient(0, 1)]
    ELSE LET prices == SortAscending(PricesOf(items))
         IN [items |-> items,
             min |-> Quotient(prices[1], 1),
             max |-> Quotient(prices[Len(prices)], 1),
             average |-> Quotient(Sum(prices), Len(prices)),
             median |-> Median(prices)]

\* ============================================================ ScraperService
ScraperStates == {"active", "inactive", "error"}

\* variant: an inactive scraper leaves the service healthy
OverallStatus_NoDegraded(fb, pm) ==
  IF fb = "error" \/ pm = "error" THEN "unhealthy" ELSE "healthy"

\* "Determine overall status"
OverallStatus(fb, pm) ==
  IF fb = "error" \/ pm = "error" THEN "unhealthy"
  ELSE IF fb = "inactive" \/ pm = "inactive" THEN "degraded"
  ELSE "healthy"

\* getHealthStatus for the two isScraperActive() answers; throws: the try block raised
getHealthStatus(fbActive, pmActive, throws) ==
  IF throws
    THEN [facebook |-> "error", poshmark |-> "error", status |-> "unhealthy"]
    ELSE LET fb == IF fbActive THEN "active" ELSE "inactive"
             pm == IF pmActive THEN "active" ELSE "inactive"
         IN [facebook |-> fb, poshmark |-> pm, status |-> OverallStatus(fb, pm)]

\* ================================================================ useScraper
\* variant: Poshmark's items first
allItems_PoshmarkFirst(data) == data.poshmark \o data.facebook

\* searchAll: the item list the hook shows for the result of a multi-source search
allItems(data) == data.facebook \o data.poshmark

\* ============================================================= specification
Next ==
  \/ \E c \in Calls : StartCall(c)
  \/ Deliver
  \/ NetworkError
  \/ Timeout
  \/ AfterAttempt
  \/ DelayElapsed
  \/ RateLimit
  \/ HandlerStart
  \/ \E s \in Sources : SourceOk(s)
  \/ \E s \in Sources : SourceFail(s)

Spec == Init /\ [][Next]_vars

\* every attempt settles, every timer fires, every continuation runs
Progress ==
  /\ WF_vars(Deliver)
  /\ WF_vars(Timeout)
  /\ WF_vars(AfterAttempt)
  /\ WF_vars(DelayElapsed)
  /\ WF_vars(HandlerStart)
  /\ WF_vars(\E s \in Sources : SourceOk(s) \/ SourceFail(s))

FairSpec == Spec /\ Progress

\* ------------------------------------------------- configuration updates
\* { ...this.config, ...newConfig }: a key newConfig has wins, 0 included
Merge(cfg, in) ==
  [retryAttempts |-> IF in.retryAttempts = <<>> THEN cfg.retryAttempts
                     ELSE in.retryAttempts[1],
   retryDelay    |-> IF in.retryDelay = <<>> THEN cfg.retryDelay ELSE in.retryDelay[1]]

\* updateConfig with a new retryAttempts, at any moment between two steps of a call
UpdateConfig ==
  /\ \E n \in 0..MaxAttempts :
       config' = Merge(config, [retryAttempts |-> <<n>>, retryDelay |-> <<>>])
  /\ config' # config
  /\ UNCHANGED <<pc, call, attempt, invoked, delays, lastError, opResult, outcome, ret,
                 serverVars, fnVars, auxVars>>

CfgNext == Next \/ UpdateConfig

\* the client with configuration updates, constructed without a config
CfgInit ==
  /\ Init
  /\ config = Constructor([retryAttempts |-> <<>>, retryDelay |-> <<>>])

CfgSpec == CfgInit /\ [][CfgNext]_vars

\* ================================================================ useScraper
HookSearches == {"searchFacebook", "searchPoshmark", "searchAll"}
HookOps == HookSearches \cup {"checkHealth", "getItemDetails", "getPlatformStatus"}

\* the SearchParams a component passes (the query stands for the object)
HookParams == {"nike", "levis"}

\* setState before the await: every operation raises loading and clears error,
\* a search also records its params
Begin(s, op, params) ==
  IF op \in HookSearches
    THEN [s EXCEPT !.loading = TRUE, !.error = Null, !.lastSearch = params]
    ELSE [s EXCEPT !.loading = TRUE, !.error = Null]

\* what the client's promise can resolve to
Resolutions(op) ==
  CASE op = "searchFacebook" -> {Listings("facebook", k) : k \in 0..MaxHits}
    [] op = "searchPoshmark" -> {Listings("poshmark", k) : k \in 0..MaxHits}
    [] op = "searchAll" ->
         {RouteData([NoCall EXCEPT !.op = "all"],
                    [pl \in Sources |-> Listings(pl, IF pl = "facebook" THEN f ELSE p)]) :
            f \in 0..MaxHits, p \in 0..MaxHits}
    [] op = "checkHealth" -> BOOLEAN
    [] OTHER -> {Null}

\* the items a resolved operation puts on the screen (none unless a search)
Shown(op, r) ==
  CASE op \in {"searchFacebook", "searchPoshmark"} -> r
    [] op = "searchAll" -> allItems(r)
    [] OTHER -> <<>>

\* variant: a resolved search leaves totalResults alone
Resolved_KeepTotal(s, op, r) ==
  CASE op \in {"searchFacebook", "searchPoshmark"} ->
         [s EXCEPT !.items = r, !.loading = FALSE, !.error = Null]
    [] op = "searchAll" ->
         [s EXCEPT !.items = allItems(r), !.loading = FALSE, !.error = Null]
    [] op = "checkHealth" ->
         [s EXCEPT !.loading = FALSE,
                   !.error = IF r THEN Null ELSE "Scraper service is not healthy"]
    [] OTHER -> [s EXCEPT !.loading = FALSE]

\* setState after the await resolved with r
Resolved(s, op, r) ==
  CASE op \in {"searchFacebook", "searchPoshmark"} ->
         [s EXCEPT !.items = r, !.loading = FALSE, !.totalResults = Len(r),
                   !.error = Null]
    [] op = "searchAll" ->
         [s EXCEPT !.items = allItems(r), !.loading = FALSE,
                   !.totalResults = r.total, !.error = Null]
    [] op = "checkHealth" ->
         [s EXCEPT !.loading = FALSE,
                   !.error = IF r THEN Null ELSE "Scraper service is not healthy"]
    [] OTHER -> [s EXCEPT !.loading = FALSE]

\* the message prefix of the catch block of an operation
HookError(op) ==
  CASE op = "checkHealth" -> "Health check failed"
    [] op = "searchFacebook" -> "Facebook search failed"
    [] op = "searchPoshmark" -> "Poshmark search failed"
    [] op = "searchAll" -> "Multi-platform search failed"
    [] op = "getItemDetails" -> "Failed to get item details"
    [] OTHER -> "Failed to get platform status"

\* variant: the catch block also drops the items
Caught_DropItems(s, op) ==
  [s EXCEPT !.items = <<>>, !.loading = FALSE, !.totalResults = 0, !.error = HookError(op)]

\* setState in the catch block
Caught(s, op) == [s EXCEPT !.loading = FALSE, !.error = HookError(op)]

\* clearResults' setState
Cleared(s) == [s EXCEPT !.items = <<>>, !.error = Null, !.totalResults = 0]

\* an operation of the hook is called: it runs up to its await
StartOp(op, params) ==
  /\ started < MaxOps
  /\ state' = Begin(state, op, params)
  /\ started' = started + 1
  /\ inflight' = inflight \cup {<<started + 1, op, params>>}
  /\ resultOf' = Append(resultOf, <<op, "pending", <<>>>>)
  /\ lastKind' = IF op \in HookSearches THEN op ELSE lastKind
  /\ cleared' = IF op \in HookSearches THEN FALSE ELSE cleared
  /\ UNCHANGED <<isMounted, clientVars, serverVars, fnVars, invVars, lifeVars>>

HookCall ==
  \E op \in HookOps, params \in HookParams :
    /\ StartOp(op, IF op \in HookSearches THEN params ELSE Null)
    /\ UNCHANGED retried

\* retryLastSearch: searchAll(state.lastSearch) when there is one
RetryLastSearch ==
  IF state.lastSearch = Null
    THEN /\ retried' = <<"none", lastKind>>
         /\ UNCHANGED <<state, isMounted, inflight, started, lastKind, resultOf, cleared,
                        clientVars, serverVars, fnVars, invVars, lifeVars>>
    ELSE /\ StartOp("searchAll", state.lastSearch)
         /\ retried' = <<"searchAll", lastKind>>

\* the await of operation o resolves with r
SettleOk(o, r) ==
  /\ o \in inflight
  /\ inflight' = inflight \ {o}
  /\ state' = IF isMounted THEN Resolved(state, o[2], r) ELSE state
  /\ resultOf' = [resultOf EXCEPT ![o[1]] = <<o[2], "ok", Shown(o[2], r)>>]
  /\ UNCHANGED <<isMounted, started, lastKind, cleared, retried,
                 clientVars, serverVars, fnVars, invVars, lifeVars>>

\* the await of operation o rejects (the client's checkHealth never does)
SettleFail(o) ==
  /\ o \in inflight
  /\ o[2] # "checkHealth"
  /\ inflight' = inflight \ {o}
  /\ state' = IF isMounted THEN Caught(state, o[2]) ELSE state
  /\ resultOf' = [resultOf EXCEPT ![o[1]] = <<o[2], "failed", <<>>>>]
  /\ UNCHANGED <<isMounted, started, lastKind, cleared, retried,
                 clientVars, serverVars, fnVars, invVars, lifeVars>>

ClearResults ==
  /\ state' = Cleared(state)
  /\ cleared' = TRUE
  /\ UNCHANGED <<isMounted, inflight, started, lastKind, resultOf, retried,
                 clientVars, serverVars, fnVars, invVars, lifeVars>>

ClearError ==
  /\ state' = [state EXCEPT !.error = Null]
  /\ UNCHANGED <<isMounted, inflight, started, lastKind, resultOf, cleared, retried,
                 clientVars, serverVars, fnVars, invVars, lifeVars>>

\* the hook's cleanup()
Cleanup ==
  /\ isMounted
  /\ isMounted' = FALSE
  /\ UNCHANGED <<state, inflight, started, lastKind, resultOf, cleared, retried,
                 clientVars, serverVars, fnVars, invVars, lifeVars>>

HookNext ==
  \/ HookCall
  \/ RetryLastSearch
  \/ \E o \in inflight : \E r \in Resolutions(o[2]) : SettleOk(o, r)
  \/ \E o \in inflight : SettleFail(o)
  \/ ClearResults
  \/ ClearError
  \/ Cleanup

HookSpec == CfgInit /\ [][HookNext]_vars

\* ============================================================ ScraperServer
\* the process: start(), the requests it serves, the shutdown signals
Others == <<clientVars, serverVars, fnVars, hookVars, invVars>>

\* variant: the callback of server.close runs as soon as close is called
Drained_AtOnce(listening, connections) == TRUE

\* net.Server emits 'close' once it has no handle and no connection left
Drained(listening, connections) == ~listening /\ connections = 0

\* what a search or item-details method of ScraperService does first
ServiceCall(initialized) ==
  IF initialized THEN "called" ELSE "ScraperService not initialized"

\* start(): initialize() is called
StartServer ==
  /\ phase = "created"
  /\ phase' = "initializing"
  /\ UNCHANGED <<isInitialized, accepting, waiting, running, arrived, signals,
                 closeCallbacks, closed, cleanups, lastServed, Others>>

\* initialize(): both scrapers initialized, isInitialized = true
InitializeOk ==
  /\ phase = "initializing"
  /\ phase' = "initialized"
  /\ isInitialized' = TRUE
  /\ UNCHANGED <<accepting, waiting, running, arrived, signals,
                 closeCallbacks, closed, cleanups, lastServed, Others>>

\* initialize() throws: start() logs and calls process.exit(1)
InitializeFail ==
  /\ phase = "initializing"
  /\ phase' = "exited"
  /\ UNCHANGED <<isInitialized, accepting, waiting, running, arrived, signals,
                 closeCallbacks, closed, cleanups, lastServed, Others>>

\* start() after the await: app.listen and the signal handlers
Listen ==
  /\ phase = "initialized"
  /\ phase' = "listening"
  /\ accepting' = TRUE
  /\ UNCHANGED <<isInitialized, waiting, running, arrived, signals,
                 closeCallbacks, closed, cleanups, lastServed, Others>>

\* a request reaches the listening server
Arrive ==
  /\ phase = "listening"
  /\ accepting
  /\ arrived < MaxRequests
  /\ arrived' = arrived + 1
  /\ waiting' = waiting + 1
  /\ UNCHANGED <<phase, isInitialized, accepting, running, signals,
                 closeCallbacks, closed, cleanups, lastServed, Others>>

\* the route handler of a request calls the service
Serve ==
  /\ phase = "listening"
  /\ waiting > 0
  /\ waiting' = waiting - 1
  /\ running' = IF isInitialized THEN running + 1 ELSE running
  /\ lastServed' = <<isInitialized /\ cleanups = 0, ServiceCall(isInitialized)>>
  /\ UNCHANGED <<phase, isInitialized, accepting, arrived, signals,
                 closeCallbacks, closed, cleanups, Others>>

\* the service call settles and the response is sent
Answer ==
  /\ phase = "listening"
  /\ running > 0
  /\ running' = running - 1
  /\ UNCHANGED <<phase, isInitialized, accepting, waiting, arrived, signals,
                 closeCallbacks, closed, cleanups, lastServed, Others>>

\* SIGTERM or SIGINT: gracefulShutdown calls server.close(callback)
Signal ==
  /\ phase = "listening"
  /\ signals < 2
  /\ signals' = signals + 1
  /\ accepting' = FALSE
  /\ closeCallbacks' = closeCallbacks + 1
  /\ UNCHANGED <<phase, isInitialized, waiting, running, arrived,
                 closed, cleanups, lastServed, Others>>

\* 'close' is emitted: each callback waiting for it calls cleanup()
EmitClose ==
  /\ phase = "listening"
  /\ closeCallbacks > 0
  /\ Drained(accepting, waiting + running)
  /\ closed' = TRUE
  /\ cleanups' = cleanups + closeCallbacks
  /\ closeCallbacks' = 0
  /\ UNCHANGED <<phase, isInitialized, accepting, waiting, running, arrived, signals,
                 lastServed, Others>>

\* cleanup() settles (isInitialized = false unless a scraper's cleanup threw,
\* which cleanup only logs), then process.exit(0)
CleanupSettle(ok) ==
  /\ phase = "listening"
  /\ cleanups > 0
  /\ isInitialized' = IF ok THEN FALSE ELSE isInitialized
  /\ phase' = "exited"
  /\ UNCHANGED <<accepting, waiting, running, arrived, signals,
                 closeCallbacks, closed, cleanups, lastServed, Others>>

\* the 30 s timer of gracefulShutdown: process.exit(1)
ForceExit ==
  /\ phase = "listening"
  /\ signals > 0
  /\ phase' = "exited"
  /\ UNCHANGED <<isInitialized, accepting, waiting, running, arrived, signals,
                 closeCallbacks, closed, cleanups, lastServed, Others>>

LifeNext ==
  \/ StartServer
  \/ InitializeOk
  \/ InitializeFail
  \/ Listen
  \/ Arrive
  \/ Serve
  \/ Answer
  \/ Signal
  \/ EmitClose
  \/ \E ok \in BOOLEAN : CleanupSettle(ok)
  \/ ForceExit

LifeSpec == CfgInit /\ [][LifeNext]_vars

\* ============================================================== useInventory
\* the ids a caller passes: those generated so far and one never generated
ItemIds == 1..(MaxInventory + 1)

\* the ids of the records of a list
IdsOf(list) == {list[i].id : i \in DOMAIN list}

\* Array.prototype.filter(item => item.id !== itemId)
Without(list, itemId) == SelectSeq(list, LAMBDA item : item.id # itemId)

\* Array.prototype.find(item => item.id === itemId); any record when absent
Find(list, itemId) ==
  list[CHOOSE i \in DOMAIN list :
         list[i].id = itemId /\ \A j \in 1..(i - 1) : list[j].id # itemId]

\* the SoldItem markAsSold builds from the item it sells
SoldItem(itemToSell, soldPrice) ==
  [actualProfit |-> soldPrice - itemToSell.userCost, id |-> itemToSell.id,
   soldPrice |-> soldPrice, status |-> "sold", userCost |-> itemToSell.userCost]

\* generateId gives an id no item has
AddToInventory(userCost) ==
  /\ generated < MaxInventory
  /\ generated' = generated + 1
  /\ inventoryItems' = Append(inventoryItems,
                              [id |-> generated + 1, listings |-> 0,
                               status |-> "inventory", userCost |-> userCost])
  /\ invCall' = <<"none", 0, 0>>
  /\ UNCHANGED <<soldItems, clientVars, serverVars, fnVars, hookVars, lifeVars>>

\* the item with updatedItem's id is replaced by updatedItem
UpdateItem(updatedItem) ==
  /\ inventoryItems' = [i \in DOMAIN inventoryItems |->
                          IF inventoryItems[i].id = updatedItem.id
                            THEN updatedItem ELSE inventoryItems[i]]
  /\ invCall' = <<"none", 0, 0>>
  /\ UNCHANGED <<soldItems, generated, clientVars, serverVars, fnVars, hookVars, lifeVars>>

MarkAsListed(itemId) ==
  /\ inventoryItems' = [i \in DOMAIN inventoryItems |->
                          IF inventoryItems[i].id = itemId
                            THEN [inventoryItems[i] EXCEPT !.status = "listed",
                                                           !.listings = 1]
                            ELSE inventoryItems[i]]
  /\ invCall' = <<"none", 0, 0>>
  /\ UNCHANGED <<soldItems, generated, clientVars, serverVars, fnVars, hookVars, lifeVars>>

\* The updater passed to setInventoryItems calls setSoldItems itself: React
\* runs an updater once, or twice on the same prev (Strict Mode of a
\* development build), and every run queues its own setSoldItems.
MarkAsSold(itemId, soldPrice, runs) ==
  /\ invCall' = <<"markAsSold", itemId, soldPrice>>
  /\ IF itemId \notin IdsOf(inventoryItems)
       THEN UNCHANGED <<inventoryItems, soldItems>>
       ELSE LET soldItem == SoldItem(Find(inventoryItems, itemId), soldPrice)
            IN /\ soldItems' = soldItems \o [i \in 1..runs |-> soldItem]
               /\ inventoryItems' = Without(inventoryItems, itemId)
  /\ UNCHANGED <<generated, clientVars, serverVars, fnVars, hookVars, lifeVars>>

DeleteItem(itemId) ==
  /\ inventoryItems' = Without(inventoryItems, itemId)
  /\ invCall' = <<"none", 0, 0>>
  /\ UNCHANGED <<soldItems, generated, clientVars, serverVars, fnVars, hookVars, lifeVars>>

InventoryNext ==
  \/ \E userCost \in 0..MaxAmount : AddToInventory(userCost)
  \/ \E itemId \in ItemIds, userCost \in 0..MaxAmount, listed \in BOOLEAN :
       UpdateItem([id |-> itemId, listings |-> IF listed THEN 1 ELSE 0,
                   status |-> IF listed THEN "listed" ELSE "inventory",
                   userCost |-> userCost])
  \/ \E itemId \in ItemIds : MarkAsListed(itemId)
  \/ \E itemId \in ItemIds, soldPrice \in 0..MaxAmount, runs \in 1..2 :
       MarkAsSold(itemId, soldPrice, runs)
  \/ \E itemId \in ItemIds : DeleteItem(itemId)

InventorySpec == CfgInit /\ [][InventoryNext]_vars

\* ------------------------------------------- functions evaluated on their own
\* One function is evaluated per behaviour, on an argument drawn by the action.
\* the function op is applied to the argument in and gives out
Apply(op, in, out) ==
  /\ fnOp = "none"
  /\ fnOp' = op
  /\ fnIn' = in
  /\ fnOut' = out
  /\ UNCHANGED <<clientVars, serverVars, auxVars>>

SearchItems ==
  \E k \in PageKinds, n \in 0..MaxPage :
    \E f \in [1..n -> ElementKinds] :
      /\ k # "results" => n = 0
      /\ Apply("searchItems", Page(k, f), searchItems(Page(k, f)))

GetHealthStatus ==
  \E fbActive \in BOOLEAN, pmActive \in BOOLEAN, throws \in BOOLEAN :
    Apply("getHealthStatus", <<fbActive, pmActive, throws>>,
          getHealthStatus(fbActive, pmActive, throws))

FnInit ==
  /\ Init
  /\ config = Constructor([retryAttempts |-> <<>>, retryDelay |-> <<>>])

SearchRoute ==
  \E q \in Queries, lo \in MinPrices, hi \in MaxPrices, sb \in SortInputs, lim \in Limits :
    Apply("searchRoute", RequestBody(q, lo, hi, sb, lim),
          searchRoute(RequestBody(q, lo, hi, sb, lim)))

ParsePrice ==
  \E n \in 0..MaxPriceLen :
    \E text \in [1..n -> PriceChars] : Apply("parsePrice", text, parsePrice(text))

GetPriceStats ==
  \E n \in 0..MaxStatItems :
    \E f \in [1..n -> StatPrices] :
      Apply("getPriceStats", StateItems(f), getPriceStats(StateItems(f)))

Handle ==
  \E ep \in Endpoints, limited \in BOOLEAN, threw \in BOOLEAN, c \in Calls :
    \E st \in SettledSources(c) :
      \E items \in SettledItems(c, st) :
        Apply("handle", <<ep, limited, c, st, items, threw>>,
              handle(ep, limited, c, st, items, threw))

DetailsRoute ==
  \E host \in Hosts, mentions \in Mentions :
    Apply("detailsRoute", <<host, mentions>>, detailsRoute(Includes(host, mentions)))

FnNext ==
  \/ SearchItems
  \/ Handle
  \/ DetailsRoute
  \/ ParsePrice
  \/ GetPriceStats
  \/ SearchRoute
  \/ GetHealthStatus

FnSpec == FnInit /\ [][FnNext]_vars

\* ==================================================================== claims

\* C1 - Retry bound: a call never invokes the operation more than
\* retryAttempts times, and a call whose every attempt failed (Exhausted)
\* has invoked it exactly retryAttempts times.
C1_RetryBound ==
  /\ invoked <= config.retryAttempts
  /\ (outcome = "Exhausted" => invoked = config.retryAttempts)

C1_Witness ==
  /\ outcome = "Exhausted"
  /\ config.retryAttempts >= 2
  /\ invoked = config.retryAttempts

\* C2 - Terminal-error short-circuit: once an attempt has failed with a 4xx
\* other than 429, the call is over after exactly 1 attempt and no backoff.
C2_TerminalShortCircuit ==
  (lastError.kind = "http" /\ lastError.status \in 400..499 /\ lastError.status # 429)
    => (pc = "done" /\ invoked = 1 /\ delays = <<>>)

\* C3 - Wait-for-all join: /search/all answers only when both source calls
\* have settled, and its answer carries the items of every source that
\* succeeded, whatever the other source did.
C3_WaitForAll ==
  (call.op = "all" /\ hpc = "responded" /\ response.status \in {200, 500})
    => /\ \A s \in Sources : src[s] \in {"ok", "failed"}
       /\ \A s \in Sources : src[s] = "ok" =>
            (response.data.shape = "all" /\ response.data[s] = srcItems[s])

\* C4 - Aggregation isolation: a multi-source search in which one source
\* succeeded and one failed gives the caller a result with partialFailure = TRUE
\* and totalCount = the number of items of the succeeded sources.
C4_PartialFailure ==
  (/\ pc = "done"
   /\ call.op = "all"
   /\ opResult.response.status # 0
   /\ \E s \in Sources : src[s] = "ok"
   /\ \E s \in Sources : src[s] = "failed")
    => /\ ret.kind = "value"
       /\ "partialFailure" \in DOMAIN ret.data
       /\ \A s \in Sources : src[s] = "ok" => ret.data.total = Len(srcItems[s])

\* C5 - A search request that fails validation is never dispatched: the
\* client makes no transport attempt for it.
C5_NeverDispatched ==
  (call.op \in SearchOps /\ searchParamsSchema(call.params) # "")
    => (invoked = 0 /\ hpc = "idle")

\* C6 - getItemDetails for a URL whose source has no record returns null
\* after a single attempt.
C6_NotFound ==
  (/\ pc = "done"
   /\ call.op = "details"
   /\ opResult.response.status = 404
   /\ src[RouteByUrl(call.url)] = "ok"
   /\ srcItems[RouteByUrl(call.url)] = <<>>)
    => (ret.kind = "null" /\ invoked = 1)

\* C7 - Backoff: the i-th delay of a call is retryDelay * i, the delays are
\* non-decreasing, one delay precedes every attempt after the first, and a
\* call that exhausted N attempts slept N-1 times.
C7_Backoff ==
  /\ \A i \in 1..Len(delays) : delays[i] = config.retryDelay * i
  /\ \A i \in 1..(Len(delays) - 1) : delays[i] <= delays[i + 1]
  /\ (pc \in {"inflight", "settled"} => Len(delays) = attempt - 1)
  /\ (outcome = "Exhausted" => Len(delays) = config.retryAttempts - 1)

C7_Witness ==
  /\ outcome = "Exhausted"
  /\ Len(delays) >= 2
  /\ delays[2] = 2 * delays[1]

\* C8 - An Exhausted call hands its caller the error of the last attempt.
C8_LastError ==
  outcome = "Exhausted" =>
    /\ ret.kind = "error"
    /\ ret.cause = opResult.error
    /\ ret.cause.at = config.retryAttempts
    /\ ret.cause.kind # "none"

C8_Witness ==
  /\ outcome = "Exhausted"
  /\ invoked >= 2
  /\ ret.cause = HttpError(500, invoked)

\* C9 - Per-call state machine: a finished call is Succeeded or Exhausted;
\* a fulfilled attempt ends the call at once with that attempt's response,
\* with no further attempt or delay; a finished call stays finished until a
\* new call starts; and every call that has started eventually finishes.
C9_StateMachine ==
  /\ [](pc = "done" => outcome \in {"Succeeded", "Exhausted"})
  /\ [](pc \in {"inflight", "settled", "delaying"} => outcome = "")
  /\ [][(pc = "settled" /\ pc' # "settled" /\ opResult.ok)
          => /\ pc' = "done"
             /\ outcome' = "Succeeded"
             /\ ret'.kind = "value"
             /\ ret'.data = opResult.response.data.data
             /\ invoked' = invoked
             /\ delays' = delays]_vars
  /\ [][(pc = "done" /\ pc' # "done") => (attempt' = 1 /\ delays' = <<>>)]_vars
  /\ ((pc \in {"inflight", "settled", "delaying"}) ~> (pc = "done"))

C9_Witness ==
  /\ pc = "done"
  /\ outcome = "Succeeded"
  /\ invoked = 2
  /\ config.retryAttempts >= 3
  /\ Len(delays) = 1

\* C10 - Retry predicate: a failed attempt whose error is a network error, a
\* timeout, a 5xx or a 429 is followed, while budget remains, by the backoff
\* and then by the next attempt; every attempt counts once.
C10_RetryPredicate ==
  /\ [](pc \in {"inflight", "settled", "delaying"} => invoked = attempt)
  /\ [][(/\ pc = "settled" /\ pc' # "settled"
         /\ ~opResult.ok
         /\ \/ opResult.error.kind \in {"network", "timeout"}
            \/ opResult.error.kind = "http" /\ opResult.error.status >= 500
            \/ opResult.error.kind = "http" /\ opResult.error.status = 429
         /\ attempt < config.retryAttempts)
          => (pc' = "delaying" /\ invoked' = invoked /\ attempt' = attempt)]_vars
  /\ [][(pc = "delaying" /\ pc' # "delaying")
          => (pc' = "inflight" /\ attempt' = attempt + 1 /\ invoked' = invoked + 1)]_vars

C10_Witness ==
  /\ pc = "settled"
  /\ attempt = 3
  /\ lastError = HttpError(429, 2)
  /\ opResult.error = TransportError("timeout", 3)

\* C11 - TotalFailure: when every source of a multi-source search has failed,
\* the service answers with an error and the caller's call ends with an error;
\* a multi-source call that ends with a value had no failed source.
C11_TotalFailure ==
  /\ (call.op = "all" /\ hpc = "responded" /\ \A s \in Sources : src[s] = "failed")
       => (response.status = 500 /\ ~response.success)
  /\ (call.op = "all" /\ pc = "done" /\ \A s \in Sources : src[s] = "failed")
       => (ret.kind = "error" /\ outcome = "Exhausted")
  /\ (call.op = "all" /\ pc = "done" /\ ret.kind = "value")
       => \A s \in Sources : src[s] = "ok"

C11_Witness ==
  /\ call.op = "all"
  /\ pc = "done"
  /\ \A s \in Sources : src[s] = "failed"
  /\ opResult.error.kind = "http"
  /\ opResult.error.status = 500
  /\ ret.kind = "error"

\* C17 - The combined item list of a multi-source search is all Facebook items
\* followed by all Poshmark items, each list in the order its source returned
\* it, whichever source call completed first; the total counts the same list.
C17_DispatchOrder ==
  (call.op = "all" /\ pc = "done" /\ ret.kind = "value") =>
    LET fb == srcItems["facebook"]
        pm == srcItems["poshmark"]
        all == allItems(ret.data)
    IN /\ Len(all) = Len(fb) + Len(pm)
       /\ \A i \in 1..Len(fb) : all[i] = fb[i]
       /\ \A j \in 1..Len(pm) : all[Len(fb) + j] = pm[j]
       /\ ret.data.total = Len(all)

C17_Witness ==
  /\ call.op = "all"
  /\ pc = "done"
  /\ ret.kind = "value"
  /\ order = <<"poshmark", "facebook">>
  /\ Len(srcItems["facebook"]) >= 2
  /\ Len(srcItems["poshmark"]) >= 1
  /\ allItems(ret.data)[1] = Item("facebook", 1)

\* C12 - A source search never reports a failure as a successful empty result:
\* whenever the page could not be reached or is not a result page the listings
\* can be extracted from, the search fails.
C12_FailureNotEmptySuccess ==
  (fnOp = "searchItems" /\ fnIn.kind # "results") => fnOut.threw

\* C13 - Health status: unhealthy if any source is in error, otherwise degraded
\* if any source is inactive, otherwise healthy, for every combination of the
\* per-source states and for every status the service reports.
C13_HealthStatus ==
  /\ \A fb \in ScraperStates, pm \in ScraperStates :
       OverallStatus(fb, pm) =
         IF "error" \in {fb, pm} THEN "unhealthy"
         ELSE IF "inactive" \in {fb, pm} THEN "degraded"
         ELSE "healthy"
  /\ fnOp = "getHealthStatus" =>
       /\ fnOut.facebook \in ScraperStates
       /\ fnOut.poshmark \in ScraperStates
       /\ fnOut.status = OverallStatus(fnOut.facebook, fnOut.poshmark)
       /\ (fnOut.status = "healthy") = (fnOut.facebook = "active" /\ fnOut.poshmark = "active")
       /\ (fnOut.status = "unhealthy") = ("error" \in {fnOut.facebook, fnOut.poshmark})

C13_Witness ==
  /\ fnOp = "getHealthStatus"
  /\ fnOut.facebook = "active"
  /\ fnOut.poshmark = "inactive"
  /\ fnOut.status = "degraded"

\* C20 - A source search never fails because of one listing: the search of a
\* result page returns, and its items are exactly the listings of the page
\* that have a title, in page order.
C20_SkipUnparsable ==
  (fnOp = "searchItems" /\ fnIn.kind = "results") =>
    /\ ~fnOut.threw
    /\ \A k \in 1..Len(fnOut.items) : fnIn.elements[fnOut.items[k].n].kind = "listing"
    /\ \A i \in 1..Len(fnIn.elements) :
         fnIn.elements[i].kind = "listing" => \E k \in 1..Len(fnOut.items) : fnOut.items[k].n = i
    /\ \A j \in 1..Len(fnOut.items), k \in 1..Len(fnOut.items) :
         j < k => fnOut.items[j].n < fnOut.items[k].n

\* C14 - A search request that passes validation and is handed to a source has
\* priceMin <= priceMax whenever both are present; a request with
\* priceMin > priceMax is rejected.
C14_PriceRange ==
  (fnOp = "searchRoute" /\ fnIn.priceMin # <<>> /\ fnIn.priceMax # <<>>) =>
    /\ fnIn.priceMin[1] > fnIn.priceMax[1] => fnOut.status = 400
    /\ fnOut.handed # <<>> => fnOut.handed[1].priceMin[1] <= fnOut.handed[1].priceMax[1]
    /\ fnOut.url # <<>> => fnOut.url[1].min_price[1] <= fnOut.url[1].max_price[1]

\* C15 - A search request with a missing or empty query, a limit outside
\* [1,100], a negative price or an unknown sortBy is answered 400 with a
\* validation error, and nothing is handed to the source; the message of a
\* 400 names a field of the request that breaks a rule (one of the above, or
\* a price above 100000).
C15_Rejects ==
  fnOp = "searchRoute" =>
    LET Offending ==
          {f \in {"query"} : fnIn.query = <<>> \/ Len(fnIn.query[1]) = 0}
          \cup {f \in {"limit"} : fnIn.limit # <<>> /\ fnIn.limit[1] \notin 1..100}
          \cup {f \in {"priceMin"} : fnIn.priceMin # <<>> /\ fnIn.priceMin[1] < 0}
          \cup {f \in {"priceMax"} : fnIn.priceMax # <<>> /\ fnIn.priceMax[1] < 0}
          \cup {f \in {"sortBy"} :
                   fnIn.sortBy # <<>> /\ fnIn.sortBy[1] \notin
                     {"relevance", "price-low", "price-high", "date", "distance"}}
        TooDear ==
          {f \in {"priceMin"} : fnIn.priceMin # <<>> /\ fnIn.priceMin[1] > 100000}
          \cup {f \in {"priceMax"} : fnIn.priceMax # <<>> /\ fnIn.priceMax[1] > 100000}
    IN /\ Offending # {} =>
            /\ fnOut.status = 400
            /\ fnOut.error = "Validation error"
            /\ fnOut.handed = <<>>
            /\ fnOut.url = <<>>
       /\ fnOut.status = 400 => fnOut.message \in Offending \cup TooDear
       /\ (Cardinality(Offending) = 1 /\ TooDear = {}) => Offending = {fnOut.message}

C15_Witness ==
  /\ fnOp = "searchRoute"
  /\ fnIn.query = <<<<"n", "i", "k", "e">>>>
  /\ fnIn.priceMin = <<20>>
  /\ fnIn.priceMax = <<100>>
  /\ fnIn.sortBy = <<"price-high">>
  /\ fnIn.limit = <<101>>
  /\ fnOut.status = 400
  /\ fnOut.message = "limit"
  /\ fnOut.handed = <<>>

\* C16 - Validation normalizes every accepted request: the query handed on has
\* no leading or trailing blank, limit is 20 when omitted and sortBy is
\* relevance when omitted.
C16_Normalizes ==
  (fnOp = "searchRoute" /\ fnOut.handed # <<>>) =>
    LET v == fnOut.handed[1]
    IN /\ Head(v.query[1]) # " "
       /\ v.query[1][Len(v.query[1])] # " "
       /\ (fnIn.limit = <<>> => v.limit = <<20>>)
       /\ (fnIn.limit # <<>> => v.limit = fnIn.limit)
       /\ (fnIn.sortBy = <<>> => v.sortBy = <<"relevance">>)
       /\ (fnIn.sortBy # <<>> => v.sortBy = fnIn.sortBy)

\* C18 - parsePrice always yields a number >= 0, and a text without any number
\* in it (for example "F" or the empty text) yields exactly 0.
C18_ParsePrice ==
  fnOp = "parsePrice" =>
    /\ ~fnOut.nan
    /\ fnOut.mantissa >= 0
    /\ (\A i \in 1..Len(fnIn) : fnIn[i] \notin Digits) => fnOut = Number(0, 0)

\* C19 - getPriceStats over a non-empty item list: min is the smallest price,
\* max the largest, average the arithmetic mean, median the middle element of
\* the sorted prices for an odd count and the mean of the two middle elements
\* for an even count; prices 10, 20, 30, 40 in any order give median 25,
\* mean 25, min 10, max 40; the item list is left as it was.
C19_PriceStats ==
  (fnOp = "getPriceStats" /\ Len(fnIn) > 0) =>
    LET n == Len(fnIn)
        price(i) == fnIn[i].price
        sorted == SortAscending(PricesOf(fnIn))
        Count(q) == Cardinality({i \in 1..n : price(i) = q})
        Is(q, v) == q.num = v * q.den
    IN /\ Len(sorted) = n
       /\ \A i \in 1..(n - 1) : sorted[i] <= sorted[i + 1]
       /\ \A q \in StatPrices : Cardinality({i \in 1..n : sorted[i] = q}) = Count(q)
       /\ \E i \in 1..n : Is(fnOut.min, price(i))
       /\ \A i \in 1..n : fnOut.min.num <= price(i) * fnOut.min.den
       /\ \E i \in 1..n : Is(fnOut.max, price(i))
       /\ \A i \in 1..n : fnOut.max.num >= price(i) * fnOut.max.den
       /\ fnOut.average.num * n = Sum(PricesOf(fnIn)) * fnOut.average.den
       /\ n % 2 = 1 => Is(fnOut.median, sorted[(n + 1) \div 2])
       /\ n % 2 = 0 =>
            2 * fnOut.median.num = (sorted[n \div 2] + sorted[n \div 2 + 1]) * fnOut.median.den
       /\ (n = 4 /\ \A q \in {10, 20, 30, 40} : Count(q) = 1) =>
            /\ Is(fnOut.median, 25)
            /\ Is(fnOut.average, 25)
            /\ Is(fnOut.min, 10)
            /\ Is(fnOut.max, 40)
       /\ fnOut.items = fnIn
       /\ {fnOut.min.den, fnOut.max.den, fnOut.average.den, fnOut.median.den} \subseteq 1..n

C19_Witness ==
  /\ fnOp = "getPriceStats"
  /\ PricesOf(fnIn) = <<40, 10, 30, 20>>
  /\ fnOut.median = Quotient(50, 2)
  /\ fnOut.average = Quotient(100, 4)
  /\ fnOut.min = Quotient(10, 1)
  /\ fnOut.max = Quotient(40, 1)

\* C21 - Every response of the service carries a boolean success; when it is
\* false, error and message are populated and the status is 4xx or 5xx; when
\* it is true, the status is 200.
C21_Envelope ==
  fnOp = "handle" =>
    /\ fnOut.success \in BOOLEAN
    /\ ~fnOut.success =>
         (fnOut.error # "" /\ fnOut.message # "" /\ fnOut.status \in 400..599)
    /\ fnOut.success => fnOut.status = 200

C21_Witness ==
  /\ fnOp = "handle"
  /\ fnIn[1] = "api"
  /\ ~fnIn[2]
  /\ fnIn[3].op = "all"
  /\ fnIn[4]["poshmark"] = "failed"
  /\ fnOut.status = 500
  /\ ~fnOut.success
  /\ fnOut.error = "Search failed"

\* C22 - /item/details hands a URL on poshmark.com to the Poshmark scraper, a
\* URL on facebook.com to the Facebook scraper, and answers 400 without
\* calling a scraper for a URL of neither host.
C22_RouteByHost ==
  fnOp = "detailsRoute" =>
    /\ fnIn[1] = "poshmark.com" => fnOut = <<0, "poshmark">>
    /\ fnIn[1] = "facebook.com" => fnOut = <<0, "facebook">>
    /\ fnIn[1] \notin {"poshmark.com", "facebook.com"} => fnOut = <<400, "">>

\* C23 - No request is handled while ScraperService is uninitialized: a
\* service call made before initialize() completed or after cleanup() ran
\* fails with 'ScraperService not initialized', and none is ever made then;
\* the server listens only after initialize() completed; cleanup() runs only
\* after the server has finished closing.
C23_InitializedWhileServing ==
  /\ lastServed # <<>> =>
       /\ ~lastServed[1] => lastServed[2] = "ScraperService not initialized"
       /\ lastServed[2] = "called"
  /\ (phase = "listening" /\ (accepting \/ waiting > 0 \/ running > 0)) =>
       isInitialized /\ cleanups = 0
  /\ accepting => phase = "listening" /\ isInitialized
  /\ phase \in {"created", "initializing"} => ~isInitialized /\ ~accepting
  /\ cleanups > 0 => closed /\ ~accepting /\ waiting = 0 /\ running = 0

\* the server served every request, was signalled, closed and cleaned up
C23_Witness ==
  /\ phase = "exited"
  /\ arrived = MaxRequests
  /\ lastServed = <<TRUE, "called">>
  /\ signals > 0
  /\ closed
  /\ cleanups > 0
  /\ ~isInitialized

\* C24 - While the hook is mounted, loading is true exactly while at least
\* one of its operations is in flight: with overlapping operations it stays
\* true until the last of them has settled.
C24_LoadingWhileInFlight ==
  isMounted => (state.loading <=> inflight # {})

\* C25 - Once every search started has settled successfully, items and
\* totalResults are the results of the search started last, whatever the
\* order in which overlapping searches settled.
C25_LatestSearchWins ==
  LET searches == {i \in 1..started : resultOf[i][1] \in HookSearches}
      latest == CHOOSE i \in searches : \A j \in searches : j <= i
  IN (/\ isMounted
      /\ ~cleared
      /\ searches # {}
      /\ \A i \in searches : resultOf[i][2] = "ok")
       => /\ state.items = resultOf[latest][3]
          /\ state.totalResults = Len(resultOf[latest][3])

C27_TotalIsLength ==
  state.totalResults = Len(state.items)

\* a multi-platform search put items of both platforms on the screen
C27_Witness ==
  /\ \E i \in 1..started : resultOf[i] = <<"searchAll", "ok", state.items>>
  /\ \E i, j \in 1..Len(state.items) :
       state.items[i].platform = "facebook" /\ state.items[j].platform = "poshmark"
  /\ state.totalResults = 2

\* C28 - retryLastSearch re-issues the last search on the operation that made
\* it (Facebook only, Poshmark only, or all platforms) with the same params,
\* and does nothing when no search has been made.
C28_RetrySamePlatform ==
  retried # <<>> =>
    /\ retried[1] = retried[2]
    /\ retried[1] # "none" => state.lastSearch # Null

\* C29 - Whatever the configuration (constructor or updateConfig, also while
\* a call is in flight), a finished call has invoked the operation at least
\* once, and a failed call throws the error of one of its own attempts.
C29_AtLeastOnce ==
  pc = "done" =>
    /\ invoked >= 1
    /\ ret.kind = "error" => (ret.cause.kind # "none" /\ ret.cause.at \in 1..invoked)

\* C30 - No item id is in both inventoryItems and soldItems; markAsSold on an
\* id of the inventory removes exactly that item from inventoryItems and
\* appends exactly one record to soldItems, with actualProfit = soldPrice -
\* userCost; markAsSold on an unknown id changes neither list.
C30_SoldOnce ==
  /\ [](IdsOf(inventoryItems) \cap IdsOf(soldItems) = {})
  /\ [][invCall'[1] = "markAsSold" =>
          IF invCall'[2] \in IdsOf(inventoryItems)
            THEN /\ inventoryItems' = Without(inventoryItems, invCall'[2])
                 /\ Len(inventoryItems') = Len(inventoryItems) - 1
                 /\ Len(soldItems') = Len(soldItems) + 1
                 /\ SubSeq(soldItems', 1, Len(soldItems)) = soldItems
                 /\ LET sold == soldItems'[Len(soldItems')]
                    IN /\ sold.id = invCall'[2]
                       /\ sold.actualProfit = invCall'[3] - sold.userCost
                       /\ sold.userCost = Find(inventoryItems, invCall'[2]).userCost
            ELSE /\ inventoryItems' = inventoryItems
                 /\ soldItems' = soldItems]_vars

====
